---- MODULE Spec2Model ----
(***************************************************************************)
(* Model of updatecsv.py: the reconciliation loop that merges PPP, hotspot *)
(* and DHCP snapshots of the configured routers and the static device list *)
(* into ShapedDevices.csv and network.json, prunes what was not seen, and  *)
(* invokes the LibreQoS reload.                                            *)
(*                                                                         *)
(* Conventions.  A Python dict is a TLA+ function; a table row is a        *)
(* function from column names to values.  The four rate columns hold       *)
(* decimal strings of integers in the program and hold the integer itself  *)
(* here.  A string returned by convert_to_mbps (the text of a float        *)
(* rounded to two places) is represented by the number it denotes, in      *)
(* hundredths of a Mbps.  A text that is parsed is a sequence of           *)
(* one-character strings.                                                  *)
(***************************************************************************)
EXTENDS Integers, Sequences, FiniteSets, TLC

\* ------------------------------------------------------------------------
\* Program constants
\* ------------------------------------------------------------------------
FIELDNAMES ==
    { "Circuit ID", "Circuit Name", "Device ID", "Device Name", "Parent Node",
      "MAC", "IPv4", "IPv6", "Download Min Mbps", "Upload Min Mbps",
      "Download Max Mbps", "Upload Max Mbps", "Comment" }

\* MIN_RATE_PERCENTAGE = 0.3 and MAX_RATE_PERCENTAGE = 1, in tenths
MIN_RATE_TENTHS == 3
MAX_RATE_TENTHS == 10
DEFAULT_BANDWIDTH == 2000
\* a bandwidth cap that an operator has set in network.json (a value of the
\* model, other than the default)
TUNED_BANDWIDTH == 500
\* the floor of max(calculated, 2) in calculate_max_rates / calculate_min_rates
RATE_FLOOR == 2
\* the '3', '3' that parse_rate_limit returns on an exception, in hundredths
PARSE_DEFAULT_HUNDREDTHS == 300

\* ------------------------------------------------------------------------
\* Bounds of the model
\* ------------------------------------------------------------------------
\* number of cycles of the main loop that are explored
MaxCycles == 2

\* ------------------------------------------------------------------------
\* Dict helpers
\* ------------------------------------------------------------------------
EmptyDict == [x \in {} |-> x]

\* d with key k removed
DictDel(d, k) == [x \in (DOMAIN d) \ {k} |-> d[x]]

\* d with d[k] = v set (insert or overwrite)
DictSet(d, k, v) == [x \in (DOMAIN d) \cup {k} |-> IF x = k THEN v ELSE d[x]]

\* d.get(k, dflt)
DictGet(d, k, dflt) == IF k \in DOMAIN d THEN d[k] ELSE dflt

Max2(a, b) == IF a >= b THEN a ELSE b

\* ------------------------------------------------------------------------
\* Bandwidth conversion and calculation
\* ------------------------------------------------------------------------
DigitChars == <<"0", "1", "2", "3", "4", "5", "6", "7", "8", "9">>

IsDigit(c) == \E i \in 1..10 : DigitChars[i] = c

DigitVal(c) == (CHOOSE i \in 1..10 : DigitChars[i] = c) - 1

RECURSIVE Pow10(_)
Pow10(n) == IF n = 0 THEN 1 ELSE 10 * Pow10(n - 1)

\* length of the longest run of digits of s that starts at position i
RECURSIVE DigitRun(_, _)
DigitRun(s, i) ==
    IF i <= Len(s) /\ IsDigit(s[i]) THEN 1 + DigitRun(s, i + 1) ELSE 0

\* the integer written by the digits s[i], ..., s[i + n - 1]
RECURSIVE DigitsValue(_, _, _)
DigitsValue(s, i, n) ==
    IF n = 0 THEN 0
    ELSE 10 * DigitsValue(s, i, n - 1) + DigitVal(s[i + n - 1])

\* round(a / b) to the nearest integer, ties to even, for a >= 0 and b > 0
RoundDiv(a, b) ==
    LET q == a \div b
        r == a % b
    IN  IF 2 * r < b THEN q
        ELSE IF 2 * r > b THEN q + 1
        ELSE IF q % 2 = 0 THEN q ELSE q + 1

\* str.strip() on a sequence of characters
RECURSIVE StripLeft(_)
StripLeft(s) == IF s # <<>> /\ Head(s) = " " THEN StripLeft(Tail(s)) ELSE s

RECURSIVE StripRight(_)
StripRight(s) ==
    IF s # <<>> /\ s[Len(s)] = " " THEN StripRight(SubSeq(s, 1, Len(s) - 1)) ELSE s

Strip(s) == StripRight(StripLeft(s))

\* convert_to_mbps: the value of the text in hundredths of a Mbps.  The
\* regular expression is matched at the start of the stripped text: a run of
\* digits, an optional '.' followed by a run of digits, an optional unit.
convert_to_mbps(value_str) ==
    IF value_str = <<>> \/ value_str = <<"0">> THEN 0
    ELSE
      LET s    == Strip(value_str)
          n1   == DigitRun(s, 1)
          hasF == n1 + 1 <= Len(s) /\ s[n1 + 1] = "." /\ DigitRun(s, n1 + 2) > 0
          nf   == IF hasF THEN DigitRun(s, n1 + 2) ELSE 0
          endN == IF hasF THEN n1 + 1 + nf ELSE n1
          unit == IF endN + 1 <= Len(s) THEN s[endN + 1] ELSE ""
          \* number = num / 10^nf
          num  == DigitsValue(s, 1, n1) * Pow10(nf)
                    + (IF hasF THEN DigitsValue(s, n1 + 2, nf) ELSE 0)
      IN  IF n1 = 0 THEN 0
          ELSE IF unit \in {"k", "K"} THEN RoundDiv(num, Pow10(nf) * 10)
          ELSE IF unit \in {"g", "G"} THEN RoundDiv(num * 100000, Pow10(nf))
          ELSE RoundDiv(num * 100, Pow10(nf))

\* str.split() and [0]: the first whitespace-delimited token; <<>> stands
\* for the IndexError of a text that holds no token
RECURSIVE TakeToken(_)
TakeToken(s) ==
    IF s = <<>> \/ Head(s) = " " THEN <<>> ELSE <<Head(s)>> \o TakeToken(Tail(s))

FirstToken(s) == TakeToken(StripLeft(s))

\* positions of '/' in s
SlashPositions(s) == {i \in 1..Len(s) : s[i] = "/"}

\* a parse_rate_limit that gives up on the pair when a side holds no number
ParseFailsOnBadSide(rate_limit) ==
    IF rate_limit = <<>> \/ rate_limit = <<"0", "/", "0">>
    THEN [rx |-> 0, tx |-> 0]
    ELSE
      LET first_rate == FirstToken(rate_limit)
          slashes    == SlashPositions(first_rate)
          p          == CHOOSE i \in slashes : TRUE
      IN  IF \/ first_rate = <<>> \/ Cardinality(slashes) # 1
             \/ DigitRun(first_rate, 1) = 0 \/ DigitRun(first_rate, p + 1) = 0
          THEN [rx |-> PARSE_DEFAULT_HUNDREDTHS, tx |-> PARSE_DEFAULT_HUNDREDTHS]
          ELSE [rx |-> convert_to_mbps(SubSeq(first_rate, 1, p - 1)),
                tx |-> convert_to_mbps(SubSeq(first_rate, p + 1, Len(first_rate)))]

\* parse_rate_limit: [rx, tx] in hundredths of a Mbps
parse_rate_limit(rate_limit) ==
    IF rate_limit = <<>> \/ rate_limit = <<"0", "/", "0">>
    THEN [rx |-> 0, tx |-> 0]
    ELSE
      LET first_rate == FirstToken(rate_limit)
          slashes    == SlashPositions(first_rate)
      IN  IF first_rate = <<>> \/ Cardinality(slashes) # 1
          THEN [rx |-> PARSE_DEFAULT_HUNDREDTHS, tx |-> PARSE_DEFAULT_HUNDREDTHS]
          ELSE LET p == CHOOSE i \in slashes : TRUE
               IN  [rx |-> convert_to_mbps(SubSeq(first_rate, 1, p - 1)),
                    tx |-> convert_to_mbps(SubSeq(first_rate, p + 1, Len(first_rate)))]

\* calculate_max_rates on one side: the argument is the text of a float,
\* given in hundredths; the result is the integer that is returned as text
MaxRate(hundredths) ==
    Max2((hundredths * MAX_RATE_TENTHS) \div 1000, RATE_FLOOR)

calculate_max_rates(rx, tx) == [rx |-> MaxRate(rx), tx |-> MaxRate(tx)]

\* calculate_min_rates on one side: the argument is the text of an integer
MinRate(max_rate) ==
    Max2((max_rate * MIN_RATE_TENTHS) \div 10, RATE_FLOOR)

calculate_min_rates(max_rx, max_tx) == [rx |-> MinRate(max_rx), tx |-> MinRate(max_tx)]

\* The two functions on arbitrary texts.  A text is a sequence of
\* one-character strings; the element "sup2" stands for the character
\* SUPERSCRIPT TWO, one of the characters of which str.isdigit() is true
\* and which float() rejects.
IsDigitStr(c) == IsDigit(c) \/ c = "sup2"

\* x.replace('.', '', 1)
RECURSIVE RemoveFirstDot(_)
RemoveFirstDot(s) ==
    IF s = <<>> THEN <<>>
    ELSE IF Head(s) = "." THEN Tail(s)
    ELSE <<Head(s)>> \o RemoveFirstDot(Tail(s))

\* x.replace('.', '', 1).isdigit()
IsNumericText(s) ==
    LET t == RemoveFirstDot(s)
    IN  t # <<>> /\ \A i \in 1..Len(t) : IsDigitStr(t[i])

\* float(x) of a text that passed the test: ValueError for a text with a
\* digit that is no ASCII digit, else the fraction num / den
FloatRaises(s) == \E i \in 1..Len(s) : s[i] = "sup2"

TextFloat(s) ==
    LET t    == RemoveFirstDot(s)
        dots == {i \in 1..Len(s) : s[i] = "."}
        nf   == IF dots = {} THEN 0 ELSE Len(s) - (CHOOSE i \in dots : TRUE)
    IN  [num |-> DigitsValue(t, 1, Len(t)), den |-> Pow10(nf)]

\* one side of either function: max(int(float(x) * factor), 2), with 0 for
\* a text that fails the test; raised when float(x) raises
RateOfText(s, tenths) ==
    IF ~IsNumericText(s) THEN [raised |-> FALSE, v |-> Max2(0, RATE_FLOOR)]
    ELSE IF FloatRaises(s) THEN [raised |-> TRUE, v |-> 0]
    ELSE [raised |-> FALSE,
          v |-> Max2((TextFloat(s).num * tenths) \div (TextFloat(s).den * 10),
                     RATE_FLOOR)]

\* the pair a function returns, or the exception that leaves it
RatePair(a, b) ==
    IF a.raised \/ b.raised THEN [raised |-> TRUE, rx |-> 0, tx |-> 0]
    ELSE [raised |-> FALSE, rx |-> a.v, tx |-> b.v]

\* calculate_max_rates and calculate_min_rates on two texts
calculate_max_rates_str(rx, tx) ==
    RatePair(RateOfText(rx, MAX_RATE_TENTHS), RateOfText(tx, MAX_RATE_TENTHS))

calculate_min_rates_str(max_rx, max_tx) ==
    RatePair(RateOfText(max_rx, MIN_RATE_TENTHS), RateOfText(max_tx, MIN_RATE_TENTHS))

\* ------------------------------------------------------------------------
\* Network configuration (network.json)
\* ------------------------------------------------------------------------
\* a node as the program creates it
NewNode(type) ==
    [downloadBandwidthMbps |-> DEFAULT_BANDWIDTH,
     uploadBandwidthMbps   |-> DEFAULT_BANDWIDTH,
     type                  |-> type,
     children              |-> EmptyDict]

\* read_network_json: the document, or {} when the file cannot be read
read_network_json(file, readable) == IF readable THEN file ELSE EmptyDict

\* the children that update_network_json gives a router it adds
RouterChildren(router) ==
    LET n == router.name
        kids == (IF router.pppoe.enabled THEN {"PPP-" \o n} ELSE {})
                  \cup (IF router.hotspot.enabled THEN {"HS-" \o n} ELSE {})
                  \cup (IF router.dhcp.enabled THEN {"DHCP-" \o n} ELSE {})
    IN  [c \in kids |-> NewNode("site")]

\* the loop of update_network_json over routers[i..]: [config, updated]
RECURSIVE AddMissingRouters(_, _, _)
AddMissingRouters(routers, i, acc) ==
    IF i > Len(routers) THEN acc
    ELSE LET router == routers[i]
         IN  IF router.name \in DOMAIN acc.config
             THEN AddMissingRouters(routers, i + 1, acc)
             ELSE AddMissingRouters(routers, i + 1,
                    [config  |-> DictSet(acc.config, router.name,
                                   [NewNode("site") EXCEPT !.children = RouterChildren(router)]),
                     updated |-> TRUE])

\* update_network_json: [config, updated]; the caller writes when updated
update_network_json(routers, file, readable) ==
    AddMissingRouters(routers, 1,
        [config |-> read_network_json(file, readable), updated |-> FALSE])

\* the names of the nodes of a hierarchy document, at both levels
NodeNames(net) ==
    (DOMAIN net) \cup UNION {DOMAIN net[n].children : n \in DOMAIN net}

\* ------------------------------------------------------------------------
\* Device entries
\* ------------------------------------------------------------------------
\* create_new_entry; ids is the pair drawn by the two generate_short_id calls
create_new_entry(code, router_name, entry_type, mac, ipv4, ids) ==
    [k \in FIELDNAMES |->
        CASE k = "Circuit ID"   -> ids[1]
          [] k = "Device ID"    -> ids[2]
          [] k = "Circuit Name" -> code
          [] k = "Device Name"  -> code
          [] k = "MAC"          -> mac
          [] k = "IPv4"         -> ipv4
          [] k = "IPv6"         -> ""
          [] k = "Parent Node"  -> entry_type \o "-" \o router_name
          [] k = "Comment"      -> entry_type
          [] OTHER              -> 0]

\* update_entry_values: the entry after the loop
UpdatedEntry(entry, new_values) ==
    [k \in (DOMAIN entry) \cup (DOMAIN new_values) |->
        IF k \in DOMAIN new_values THEN new_values[k] ELSE entry[k]]

\* an update_entry_values that sets the flag for every value it is given
EntryChangedAlways(entry, new_values) == DOMAIN new_values # {}

\* update_entry_values: the returned flag (entry.get(k) != v for some k)
EntryChanged(entry, new_values) ==
    \E k \in DOMAIN new_values : k \notin DOMAIN entry \/ entry[k] # new_values[k]

\* ------------------------------------------------------------------------
\* Device processing
\* ------------------------------------------------------------------------
\* The processing functions work on a state [data, net, users, updated]:
\* existing_data and network_config (both mutated in place by the program),
\* current_users and the updated flag.

\* a per-plan step that creates the plan node even when the router's node
\* already holds one of that name
PlanNodeReplaced(net, router_name, profile_node) ==
    IF router_name \in DOMAIN net
    THEN [net EXCEPT ![router_name].children =
             DictSet(@, profile_node, NewNode("plan"))]
    ELSE net

\* lines 398-409 of process_pppoe_users: the plan node is added to the
\* children of the router's node when that node exists and holds no child
\* of that name (every node of the model has a 'children' dict)
PlanNodeAdded(net, router_name, profile_node) ==
    IF /\ router_name \in DOMAIN net
       /\ profile_node \notin DOMAIN net[router_name].children
    THEN [net EXCEPT ![router_name].children =
             DictSet(@, profile_node, NewNode("plan"))]
    ELSE net

\* lines 391-392 of process_pppoe_users: the maximum and minimum rates of
\* a parsed rate limit
RatesOfMax(max) == [max |-> max, min |-> calculate_min_rates(max.rx, max.tx)]

RatesOfParsed(parsed) == RatesOfMax(calculate_max_rates(parsed.rx, parsed.tx))

\* lines 411-419 of process_pppoe_users: the new_values dict
PPPNewValues(secret, parent_node, rates) ==
    ("Parent Node" :> parent_node)
    @@ ("MAC" :> DictGet(secret, "caller-id", ""))
    @@ ("IPv4" :> DictGet(secret, "address", ""))
    @@ ("Download Max Mbps" :> rates.max.rx)
    @@ ("Upload Max Mbps" :> rates.max.tx)
    @@ ("Download Min Mbps" :> rates.min.rx)
    @@ ("Upload Min Mbps" :> rates.min.tx)

\* lines 420-421 of process_pppoe_users: update_entry_values on the entry
\* of the table, with the hierarchy as the iteration left it
PPPUpdate(st, code, isNew, entry, new_values, net) ==
    [data    |-> DictSet(st.data, code, UpdatedEntry(entry, new_values)),
     net     |-> net,
     users   |-> st.users \cup {code},
     updated |-> st.updated \/ isNew \/ EntryChanged(entry, new_values)]

\* one iteration of the loop of process_pppoe_users, for one active secret
PPPStep(st, secret, router, rate_limit, ids) ==
    LET code         == secret["name"]
        router_name  == router.name
        isNew        == code \notin DOMAIN st.data
        entry        == IF isNew
                        THEN create_new_entry(code, router_name, "PPP",
                                 DictGet(secret, "caller-id", ""),
                                 DictGet(secret, "address", ""), ids)
                        ELSE st.data[code]
        profile_name == DictGet(secret, "profile", "default")
        profile_node == "PLAN-" \o profile_name \o "-" \o router_name
        parent_node  == IF router.pppoe.per_plan_node
                        THEN profile_node ELSE "PPP-" \o router_name
        net          == IF router.pppoe.per_plan_node
                        THEN PlanNodeAdded(st.net, router_name, profile_node)
                        ELSE st.net
    IN  PPPUpdate(st, code, isNew, entry,
                  PPPNewValues(secret, parent_node,
                               RatesOfParsed(parse_rate_limit(rate_limit))),
                  net)

\* the dict {name: record} built from a fetched list, as the list of its
\* values in insertion order (a later record of the same name replaces the
\* earlier one in place)
RECURSIVE DictValues(_, _)
DictValues(list, i) ==
    IF i > Len(list) THEN <<>>
    ELSE LET name == list[i]["name"]
             last == CHOOSE j \in i..Len(list) :
                        /\ list[j]["name"] = name
                        /\ \A m \in (j + 1)..Len(list) : list[m]["name"] # name
         IN  IF \E j \in 1..(i - 1) : list[j]["name"] = name
             THEN DictValues(list, i + 1)
             ELSE <<list[last]>> \o DictValues(list, i + 1)

\* active_secrets of process_pppoe_users, as the list of its values
RECURSIVE ActiveSecrets(_, _, _)
ActiveSecrets(secrets, active, i) ==
    IF i > Len(secrets) THEN <<>>
    ELSE LET data == secrets[i]
             hits == {j \in 1..Len(active) : active[j]["name"] = data["name"]}
         IN  IF hits # {} /\ "address" \in DOMAIN active[CHOOSE j \in hits : TRUE]
             THEN <<DictSet(data, "address", active[CHOOSE j \in hits : TRUE]["address"])>>
                    \o ActiveSecrets(secrets, active, i + 1)
             ELSE ActiveSecrets(secrets, active, i + 1)

\* the text '50M/50M' that stands in for a missing rate limit
Text50M == <<"5", "0", "M", "/", "5", "0", "M">>

\* get_profile_rate_limits: the comment of the profile; profiles maps the
\* names of the router's PPP profiles to their comments
get_profile_rate_limits(profiles, profile_name) ==
    DictGet(profiles, profile_name, Text50M)

\* the rate limit text of one secret (lines 381-388)
PPPRateLimit(secret, use_profile, profiles) ==
    IF use_profile
    THEN get_profile_rate_limits(profiles, DictGet(secret, "profile", "default"))
    ELSE DictGet(secret, "rate-limit", Text50M)

RECURSIVE PPPLoop(_, _, _, _, _, _, _)
PPPLoop(st, items, i, router, use_profile, profiles, gen) ==
    IF i > Len(items) THEN st
    ELSE PPPLoop(PPPStep(st, items[i], router,
                         PPPRateLimit(items[i], use_profile, profiles), gen[i]),
                 items, i + 1, router, use_profile, profiles, gen)

\* process_pppoe_users: secrets and active are what the two fetches return
\* ([] when a fetch fails), use_profile and profiles what the global setting
\* and the profile lookups return, gen the generated identifiers
process_pppoe_users(router, data, net, secrets, active, use_profile, profiles, gen) ==
    IF ~router.pppoe.enabled
    THEN [data |-> data, net |-> net, users |-> {}, updated |-> FALSE]
    ELSE PPPLoop([data |-> data, net |-> net, users |-> {}, updated |-> FALSE],
                 ActiveSecrets(DictValues(secrets, 1), DictValues(active, 1), 1),
                 1, router, use_profile, profiles, gen)

\* mac.replace(':', '') on the MAC addresses of the model
StripColons(mac) ==
    CASE mac = "AA:01" -> "AA01"
      [] mac = "AA:02" -> "AA02"
      [] OTHER -> mac

\* one iteration of the loop of process_hotspot_users
HotspotStep(st, user, router, ids) ==
    LET mac  == DictGet(user, "mac-address", "")
        ip   == DictGet(user, "address", "")
        byMac == router.hotspot.include_mac /\ mac # ""
        username == DictGet(user, "user", "")
        code == IF byMac THEN "HS-" \o StripColons(mac) ELSE "HS-" \o username
        isNew == code \notin DOMAIN st.data
        entry == IF isNew
                 THEN create_new_entry(code, router.name, "HS", mac, ip, ids)
                 ELSE st.data[code]
        rx_max == router.hotspot.download_limit_mbps
        tx_max == router.hotspot.upload_limit_mbps
        min    == calculate_min_rates(rx_max, tx_max)
        new_values == ("Parent Node" :> ("HS-" \o router.name))
                      @@ ("MAC" :> mac)
                      @@ ("IPv4" :> ip)
                      @@ ("Download Max Mbps" :> rx_max)
                      @@ ("Upload Max Mbps" :> tx_max)
                      @@ ("Download Min Mbps" :> min.rx)
                      @@ ("Upload Min Mbps" :> min.tx)
    IN  IF ~byMac /\ username = "" THEN st
        ELSE [data    |-> DictSet(st.data, code, UpdatedEntry(entry, new_values)),
              net     |-> st.net,
              users   |-> st.users \cup {code},
              updated |-> st.updated \/ isNew \/ EntryChanged(entry, new_values)]

RECURSIVE HotspotLoop(_, _, _, _, _)
HotspotLoop(st, users, i, router, gen) ==
    IF i > Len(users) THEN st
    ELSE HotspotLoop(HotspotStep(st, users[i], router, gen[i]), users, i + 1, router, gen)

\* The table when process_hotspot_users raises at line 460 (calculate_min_rates
\* on a configured limit that float() rejects), which happens for the first
\* user that the loop evaluates: the entry of that user has been created
\* (lines 454-455) when it was new, and nothing else was done.
RECURSIVE HotspotRaisedData(_, _, _, _, _)
HotspotRaisedData(data, users, i, router, gen) ==
    IF ~router.hotspot.enabled \/ i > Len(users) THEN data
    ELSE LET r == HotspotStep([data |-> data, net |-> EmptyDict, users |-> {},
                               updated |-> FALSE], users[i], router, gen[i])
         IN  IF r.users = {} THEN HotspotRaisedData(data, users, i + 1, router, gen)
             ELSE LET code == CHOOSE c \in r.users : TRUE
                  IN  IF code \in DOMAIN data THEN data
                      ELSE DictSet(data, code,
                               create_new_entry(code, router.name, "HS",
                                   DictGet(users[i], "mac-address", ""),
                                   DictGet(users[i], "address", ""), gen[i]))

\* process_hotspot_users: hotspot_users is what the fetch returns
process_hotspot_users(router, data, net, hotspot_users, gen) ==
    IF ~router.hotspot.enabled
    THEN [data |-> data, net |-> net, users |-> {}, updated |-> FALSE]
    ELSE HotspotLoop([data |-> data, net |-> net, users |-> {}, updated |-> FALSE],
                     hotspot_users, 1, router, gen)

\* one iteration of the second loop of process_dhcp_leases
DhcpStep(st, lease, router, ids) ==
    LET mac  == DictGet(lease, "mac-address", "")
        ip   == DictGet(lease, "address", "")
        hostname == DictGet(lease, "host-name", "")
        code == IF hostname # "" THEN "DHCP-" \o hostname
                ELSE "DHCP-" \o StripColons(mac)
        isNew == code \notin DOMAIN st.data
        entry == IF isNew
                 THEN create_new_entry(code, router.name, "DHCP", mac, ip, ids)
                 ELSE st.data[code]
        rx_max == router.dhcp.download_limit_mbps
        tx_max == router.dhcp.upload_limit_mbps
        min    == calculate_min_rates(rx_max, tx_max)
        new_values == ("Parent Node" :> ("DHCP-" \o router.name))
                      @@ ("MAC" :> mac)
                      @@ ("IPv4" :> ip)
                      @@ ("Comment" :> (IF hostname # "" THEN hostname ELSE "DHCP"))
                      @@ ("Download Max Mbps" :> rx_max)
                      @@ ("Upload Max Mbps" :> tx_max)
                      @@ ("Download Min Mbps" :> min.rx)
                      @@ ("Upload Min Mbps" :> min.tx)
    IN  IF mac = "" THEN st
        ELSE [data    |-> DictSet(st.data, code, UpdatedEntry(entry, new_values)),
              net     |-> st.net,
              users   |-> st.users \cup {code},
              updated |-> st.updated \/ isNew \/ EntryChanged(entry, new_values)]

RECURSIVE DhcpLoop(_, _, _, _, _)
DhcpLoop(st, leases, i, router, gen) ==
    IF i > Len(leases) THEN st
    ELSE DhcpLoop(DhcpStep(st, leases[i], router, gen[i]), leases, i + 1, router, gen)

\* the leases of one server: all of them for '*', else those of the server
RECURSIVE ServerLeases(_, _)
ServerLeases(leases, server) ==
    IF leases = <<>> THEN <<>>
    ELSE IF server = "*" \/ DictGet(Head(leases), "server", "") = server
         THEN <<Head(leases)>> \o ServerLeases(Tail(leases), server)
         ELSE ServerLeases(Tail(leases), server)

\* the first loop of process_dhcp_leases: one fetch per configured server
RECURSIVE CollectLeases(_, _, _)
CollectLeases(servers, fetched, i) ==
    IF i > Len(servers) THEN <<>>
    ELSE ServerLeases(fetched[i], servers[i]) \o CollectLeases(servers, fetched, i + 1)

\* The table when process_dhcp_leases raises at line 515, as for the hotspot
\* users: the entry of the first lease evaluated has been created (lines
\* 509-510) when it was new.
RECURSIVE DhcpRaisedData(_, _, _, _, _)
DhcpRaisedData(data, leases, i, router, gen) ==
    IF ~router.dhcp.enabled \/ i > Len(leases) THEN data
    ELSE LET r == DhcpStep([data |-> data, net |-> EmptyDict, users |-> {},
                            updated |-> FALSE], leases[i], router, gen[i])
         IN  IF r.users = {} THEN DhcpRaisedData(data, leases, i + 1, router, gen)
             ELSE LET code == CHOOSE c \in r.users : TRUE
                  IN  IF code \in DOMAIN data THEN data
                      ELSE DictSet(data, code,
                               create_new_entry(code, router.name, "DHCP",
                                   DictGet(leases[i], "mac-address", ""),
                                   DictGet(leases[i], "address", ""), gen[i]))

\* process_dhcp_leases: fetched[i] is what the fetch for the i-th server returns
process_dhcp_leases(router, data, net, fetched, gen) ==
    IF ~router.dhcp.enabled
    THEN [data |-> data, net |-> net, users |-> {}, updated |-> FALSE]
    ELSE DhcpLoop([data |-> data, net |-> net, users |-> {}, updated |-> FALSE],
                  CollectLeases(router.dhcp.dhcp_server, fetched, 1), 1, router, gen)

\* one iteration of the loop of process_static_devices
StaticStep(st, device, ids) ==
    LET circuit_name == DictGet(device, "Circuit Name", "")
        new_entry ==
            [k \in FIELDNAMES |->
                CASE k = "Circuit ID"   -> ids[1]
                  [] k = "Device ID"    -> ids[2]
                  [] k = "Circuit Name" -> circuit_name
                  [] k = "Device Name"  -> DictGet(device, k, circuit_name)
                  [] k = "Parent Node"  -> DictGet(device, k, "Static")
                  [] k \in {"MAC", "IPv4", "IPv6", "Comment"} -> DictGet(device, k, "")
                  [] OTHER              -> DictGet(device, k, 0)]
    IN  IF circuit_name = "" THEN st
        ELSE IF circuit_name \in DOMAIN st.data
        THEN [data    |-> DictSet(st.data, circuit_name,
                                  UpdatedEntry(st.data[circuit_name], device)),
              net     |-> st.net,
              users   |-> st.users \cup {circuit_name},
              updated |-> st.updated \/ EntryChanged(st.data[circuit_name], device)]
        ELSE [data    |-> DictSet(st.data, circuit_name, new_entry),
              net     |-> st.net,
              users   |-> st.users \cup {circuit_name},
              updated |-> TRUE]

RECURSIVE StaticLoop(_, _, _, _)
StaticLoop(st, devices, i, gen) ==
    IF i > Len(devices) THEN st
    ELSE StaticLoop(StaticStep(st, devices[i], gen[i]), devices, i + 1, gen)

\* The static device file as read_json_data returns it.  kind is "missing"
\* (no file: {}), "invalid" (JSONDecodeError), "list" (a list of devices),
\* "dict" (a dict with a "StaticDevices" key) or "settings" (a non-empty
\* dict without that key).
StaticDevicesOf(file) ==
    IF file.kind \in {"list", "dict"} THEN file.devices ELSE <<>>

\* iterating a dict without "StaticDevices" yields its keys, and
\* device.get on a key raises AttributeError, which nothing in
\* process_static_devices catches
StaticRaises(file) == file.kind = "settings"

\* process_static_devices, when it returns
process_static_devices(data, net, file, gen) ==
    StaticLoop([data |-> data, net |-> net, users |-> {}, updated |-> FALSE],
               StaticDevicesOf(file), 1, gen)

\* main, lines 644-652: the default "Static" parent node
AddStaticNode(net, static_codes) ==
    IF static_codes # {} /\ "Static" \notin DOMAIN net
    THEN DictSet(net, "Static", NewNode("static"))
    ELSE net

\* a pruning that spares the entries of static devices
PrunedButStatic(data, current_users) ==
    [code \in {c \in DOMAIN data : c \in current_users \/ data[c]["Comment"] = "Static"}
        |-> data[code]]

\* main, lines 654-659: remove inactive users
Pruned(data, current_users) ==
    [code \in (DOMAIN data) \cap current_users |-> data[code]]

\* ------------------------------------------------------------------------
\* The CSV file
\* ------------------------------------------------------------------------
\* write_shaped_devices_csv: one row per entry; a column the entry lacks is
\* written empty
CsvRows(data) ==
    {[k \in FIELDNAMES |-> DictGet(data[code], k, "")] : code \in DOMAIN data}

\* csv.DictWriter raises ValueError for a row that holds a key outside its
\* fieldnames
HasUnknownColumn(entry) == (DOMAIN entry) \ FIELDNAMES # {}

\* write_shaped_devices_csv raises on this table, after it has opened and
\* truncated the file
WriteRaises(data) == \E code \in DOMAIN data : HasUnknownColumn(data[code])

\* What the file can hold after write_shaped_devices_csv raised: the rows
\* written before the first one that cannot be written.  The table of the
\* model keeps no order, so these are the rows of any set of entries that
\* can be written.
PartialWrites(data) ==
    {CsvRows([code \in kept |-> data[code]]) :
        kept \in SUBSET {code \in DOMAIN data : ~HasUnknownColumn(data[code])}}

\* read_shaped_devices_csv: the rows keyed by their 'Circuit Name'
read_shaped_devices_csv(rows) ==
    [name \in {r["Circuit Name"] : r \in rows} |->
        CHOOSE r \in rows : r["Circuit Name"] = name]

\* ------------------------------------------------------------------------
\* A whole cycle
\* ------------------------------------------------------------------------
\* What a processing function returns is merged into the state of the cycle
\* (lines 626-627, 630-631, 634-635 and 641-642): the users it collected
\* and its updated flag; the table and the hierarchy are those it mutated.
Collect(st, r) ==
    [data    |-> r.data,
     net     |-> r.net,
     users   |-> st.users \cup r.users,
     updated |-> st.updated \/ r.updated]

\* The three calls for one router (lines 625-635) when none raises.  src
\* is what the fetches of the router return: secrets, active, hotspot and
\* leases (the lease list is fetched once per configured server).
PppoePart(st, router, src, gen) ==
    Collect(st, process_pppoe_users(router, st.data, st.net, src.secrets, src.active,
                                    FALSE, EmptyDict, gen))

HotspotPart(st, router, src, gen) ==
    Collect(st, process_hotspot_users(router, st.data, st.net, src.hotspot, gen))

DhcpPart(st, router, src, gen) ==
    Collect(st, process_dhcp_leases(router, st.data, st.net,
                    [k \in 1..Len(router.dhcp.dhcp_server) |-> src.leases], gen))

RouterStep(st, router, src, gen) ==
    DhcpPart(HotspotPart(PppoePart(st, router, src, gen), router, src, gen),
             router, src, gen)

\* The loop over the routers (lines 618-637) when every router is reached
\* and no call raises.  sources maps the name of a router to what its
\* fetches return.
RECURSIVE RoutersLoop(_, _, _, _, _)
RoutersLoop(st, router_list, i, sources, gen) ==
    IF i > Len(router_list) THEN st
    ELSE RoutersLoop(RouterStep(st, router_list[i], sources[router_list[i].name], gen),
                     router_list, i + 1, sources, gen)

\* main, lines 640-652: the static devices and the default "Static" node
StaticPart(st, s) ==
    [data    |-> s.data,
     net     |-> AddStaticNode(s.net, s.users),
     users   |-> st.users \cup s.users,
     updated |-> st.updated \/ s.updated]

\* main, lines 654-664: the pruning and the commit.  u is what
\* update_network_json returned (it has written network.json when it added
\* a router), st the state after the static devices.
CycleEnd(rows, file, u, st) ==
    LET any  == st.updated \/ (DOMAIN st.data) \ st.users # {}
        data == Pruned(st.data, st.users)
    IN  [data        |-> data,
         any_updates |-> any,
         rows        |-> IF any THEN CsvRows(data) ELSE rows,
         net         |-> IF any THEN st.net
                         ELSE IF u.updated THEN u.config ELSE file]

\* main, lines 640-642: the static devices are processed on the state
\* that the loop over the routers left
CycleCollected(st, static, gen) ==
    StaticPart(st, process_static_devices(st.data, st.net, static, gen))

\* One iteration of main's loop, lines 612-664, when nothing fails (no
\* declaration holds a field that is no column): the table after pruning,
\* any_updates, and the two files after the commit.  rows and file are the
\* two files when the cycle starts, static the static device file.
CycleFrom(rows, file, router_list, sources, static, gen, u) ==
    CycleEnd(rows, file, u,
        CycleCollected(RoutersLoop([data |-> read_shaped_devices_csv(rows),
                                    net |-> u.config, users |-> {}, updated |-> FALSE],
                                   router_list, 1, sources, gen),
                       static, gen))

main_cycle(rows, file, router_list, sources, static, gen) ==
    CycleFrom(rows, file, router_list, sources, static, gen,
              update_network_json(router_list, file, TRUE))

\* ------------------------------------------------------------------------
\* Inputs of the model
\* ------------------------------------------------------------------------
Text20M5 == <<"2", "0", "M", "/", "5", "M">>
Text1M   == <<"1", "M", "/", "5", "1", "2", "k">>

\* A router of config.json.  manual_parent and manual_parent_nodes are the
\* manual-parent toggle and pool of the file; no line of the program reads
\* them.
RouterR1a ==
    [name    |-> "r1",
     manual_parent |-> FALSE, manual_parent_nodes |-> <<>>,
     pppoe   |-> [enabled |-> TRUE, per_plan_node |-> FALSE],
     hotspot |-> [enabled |-> FALSE, include_mac |-> TRUE,
                  download_limit_mbps |-> 10, upload_limit_mbps |-> 10],
     dhcp    |-> [enabled |-> FALSE, download_limit_mbps |-> 1000,
                  upload_limit_mbps |-> 1000, dhcp_server |-> <<"dhcp1">>]]

RouterR1b ==
    [name    |-> "r1",
     manual_parent |-> TRUE, manual_parent_nodes |-> <<"PPPOE-A", "PPPOE-B">>,
     pppoe   |-> [enabled |-> TRUE, per_plan_node |-> TRUE],
     hotspot |-> [enabled |-> TRUE, include_mac |-> TRUE,
                  download_limit_mbps |-> 1, upload_limit_mbps |-> 1],
     dhcp    |-> [enabled |-> TRUE, download_limit_mbps |-> 10,
                  upload_limit_mbps |-> 10, dhcp_server |-> <<"dhcp1">>]]

\* config.json: kind is "missing" (no file), "invalid" (not JSON) or "ok"
ConfigFiles ==
    { [kind |-> "missing", routers |-> <<>>],
      [kind |-> "invalid", routers |-> <<>>],
      [kind |-> "ok", routers |-> <<>>],
      [kind |-> "ok", routers |-> <<RouterR1a>>],
      [kind |-> "ok", routers |-> <<RouterR1b>>] }

\* read_config_json: the routers of the file, [] when it cannot be read
read_config_json(file) == IF file.kind = "ok" THEN file.routers ELSE <<>>

Secret1 ==
    ("name" :> "u1") @@ ("profile" :> "gold") @@ ("caller-id" :> "AA:01")
        @@ ("rate-limit" :> Text20M5)

SecretLists == {<<>>, <<Secret1>>}

ActiveLists ==
    {<<>>, <<("name" :> "u1") @@ ("address" :> "a1")>>}

\* the comment of each PPP profile of the router
ProfileComments == {("gold" :> Text1M)}

HotspotUser1 ==
    ("mac-address" :> "AA:02") @@ ("address" :> "a1") @@ ("user" :> "bob")

HotspotLists == {<<>>, <<HotspotUser1>>}

Lease1 ==
    ("mac-address" :> "AA:01") @@ ("address" :> "a2") @@ ("host-name" :> "pc")
        @@ ("server" :> "dhcp1")

LeaseLists == {<<>>, <<Lease1>>}

StaticDevice1 ==
    ("Circuit Name" :> "s1") @@ ("Circuit ID" :> "X1") @@ ("Device ID" :> "Y1")
        @@ ("Parent Node" :> "P1") @@ ("IPv4" :> "a1") @@ ("Comment" :> "Static")

\* the same declaration with a field that is no column of the table
StaticDeviceNote == StaticDevice1 @@ ("Note" :> "n")

StaticFiles ==
    { [kind |-> "missing", devices |-> <<>>],
      [kind |-> "invalid", devices |-> <<>>],
      [kind |-> "settings", devices |-> <<>>],
      [kind |-> "list", devices |-> <<StaticDevice1>>],
      [kind |-> "dict", devices |-> <<StaticDeviceNote>>] }

\* a node whose caps the operator has tuned
TunedNode(children) ==
    [downloadBandwidthMbps |-> TUNED_BANDWIDTH,
     uploadBandwidthMbps   |-> TUNED_BANDWIDTH,
     type                  |-> "site",
     children              |-> children]

\* a network.json that the program created for r1 and the operator tuned
TunedNet == ("r1" :> TunedNode(("PPP-r1" :> TunedNode(EmptyDict))))

\* the outputs of generate_short_id, in pairs (Circuit ID, Device ID)
GenIdPairs == {<<"C1", "D1">>, <<"C2", "D2">>}

\* the identifiers generated while a list of n records is processed
GenSeqs(n) == [1..n -> GenIdPairs]

\* what a fetch can return: one of the lists, or [] when it fails
FetchResults(lists) == lists \cup {<<>>}

\* ------------------------------------------------------------------------
\* State
\* ------------------------------------------------------------------------
VARIABLES
    csvFile,            \* ShapedDevices.csv: the set of its rows
    netFile,            \* network.json: the hierarchy document
    pc,                 \* position of main in its loop
    cycle,              \* number of iterations of the loop started so far
    existing_data,      \* main's existing_data
    network_config,     \* main's network_config
    routers,            \* main's routers
    ri,                 \* index in routers of the router of the for loop
    all_current_users,  \* main's all_current_users
    any_updates,        \* main's any_updates
    wrote,              \* history: which of "csv", "net" main wrote this cycle
    reload,             \* history: outcome of this cycle's LibreQoS command
    config_read,        \* history: whether this cycle's config.json could be read
    fn,                 \* the function that runs: "main", or in a function
                        \* scenario "input" and then the function called
    arg,                \* its arguments; for main the scenario, "table" or
                        \* "hierarchy"
    ret                 \* function scenarios: what the function returned

vars == <<csvFile, netFile, pc, cycle, existing_data, network_config, routers,
          ri, all_current_users, any_updates, wrote, reload, config_read,
          fn, arg, ret>>

files == <<csvFile, netFile>>
locals == <<existing_data, network_config, routers, all_current_users, any_updates>>
history == <<wrote, reload, config_read>>
\* the variables of the function scenarios, which main leaves alone
call == <<fn, arg, ret>>

Init ==
    /\ csvFile = {}
    /\ netFile = EmptyDict
    /\ pc = "start"
    /\ cycle = 0
    /\ existing_data = EmptyDict
    /\ network_config = EmptyDict
    /\ routers = <<>>
    /\ ri = 1
    /\ all_current_users = {}
    /\ any_updates = FALSE
    /\ wrote = {}
    /\ reload = "none"
    /\ config_read = TRUE
    /\ fn = "main"
    /\ arg = "table"
    /\ ret = <<>>

\* whether network.json can be read when a cycle starts: read_network_json
\* catches every exception of the read.  A failing read is explored in the
\* hierarchy scenario only.
NetReadable == IF arg = "hierarchy" THEN BOOLEAN ELSE {TRUE}

\* where the for loop over routers goes with index i
RouterPc(list, i) == IF i > Len(list) THEN "static" ELSE "router"

\* main, lines 612-616: read the table and the configuration, add the
\* missing routers to network.json (whose write fails silently)
StartCycle ==
    /\ pc \in {"start", "sleep_scan", "sleep_error"}
    /\ cycle < MaxCycles
    /\ \E file \in ConfigFiles, net_readable \in NetReadable, net_written \in BOOLEAN :
         LET config == read_config_json(file)
             u == update_network_json(config, netFile, net_readable)
         IN  /\ routers' = config
             /\ config_read' = (file.kind = "ok")
             /\ network_config' = u.config
             /\ netFile' = IF u.updated /\ net_written THEN u.config ELSE netFile
             /\ pc' = RouterPc(config, 1)
    /\ existing_data' = read_shaped_devices_csv(csvFile)
    /\ all_current_users' = {}
    /\ any_updates' = FALSE
    /\ ri' = 1
    /\ cycle' = cycle + 1
    /\ wrote' = {}
    /\ reload' = "none"
    /\ UNCHANGED <<csvFile, call>>

\* main, lines 618-623: connect_to_router returns an api or None
ConnectRouter ==
    /\ pc = "router"
    /\ \E api_ok \in BOOLEAN :
         IF api_ok
         THEN /\ pc' = "ppp"
              /\ ri' = ri
         ELSE /\ pc' = RouterPc(routers, ri + 1)
              /\ ri' = ri + 1
    /\ UNCHANGED <<files, cycle, locals, history, call>>

\* the effect on main of a processing function that returned r
Merged(r, next_pc, next_ri) ==
    /\ existing_data' = r.data
    /\ network_config' = r.net
    /\ all_current_users' = all_current_users \cup r.users
    /\ any_updates' = (any_updates \/ r.updated)
    /\ pc' = next_pc
    /\ ri' = next_ri

\* the effect on main of a processing function that raised: the except
\* clause of lines 636-637 ends the work on this router; data is the table
\* as the function left it, and what it had collected is lost
Raised(data) ==
    /\ existing_data' = data
    /\ pc' = RouterPc(routers, ri + 1)
    /\ ri' = ri + 1
    /\ UNCHANGED <<network_config, all_current_users, any_updates>>

\* main, lines 625-627.  raises: an exception leaves process_pppoe_users
\* (such as the AttributeError of line 351 for a 'pppoe' section that is
\* not a dict, for a router that network.json already holds)
ProcessPPP ==
    /\ pc = "ppp"
    /\ \E raises \in BOOLEAN :
         IF raises THEN Raised(existing_data)
         ELSE \E secrets \in FetchResults(SecretLists),
                 active \in FetchResults(ActiveLists),
                 use_profile \in BOOLEAN,
                 profiles \in ProfileComments :
                \E gen \in GenSeqs(Len(secrets)) :
                   Merged(process_pppoe_users(routers[ri], existing_data, network_config,
                              secrets, active, use_profile, profiles, gen),
                          "hotspot", ri)
    /\ UNCHANGED <<files, cycle, routers, history, call>>

\* main, lines 629-631.  raises: process_hotspot_users raises before its
\* loop (line 427, as above) or at line 460
ProcessHotspot ==
    /\ pc = "hotspot"
    /\ \E raises \in BOOLEAN, hotspot_users \in FetchResults(HotspotLists) :
         \E gen \in GenSeqs(Len(hotspot_users)) :
            IF raises
            THEN \E data \in {existing_data,
                              HotspotRaisedData(existing_data, hotspot_users, 1,
                                                routers[ri], gen)} :
                    Raised(data)
            ELSE Merged(process_hotspot_users(routers[ri], existing_data, network_config,
                            hotspot_users, gen),
                        "dhcp", ri)
    /\ UNCHANGED <<files, cycle, routers, history, call>>

\* main, lines 633-635.  raises: process_dhcp_leases raises before its
\* loops (line 477) or at line 515
ProcessDhcp ==
    /\ pc = "dhcp"
    /\ \E raises \in BOOLEAN,
          fetched \in [1..Len(routers[ri].dhcp.dhcp_server) -> FetchResults(LeaseLists)] :
         LET leases == CollectLeases(routers[ri].dhcp.dhcp_server, fetched, 1)
         IN  \E gen \in GenSeqs(Len(leases)) :
                IF raises
                THEN \E data \in {existing_data,
                                  DhcpRaisedData(existing_data, leases, 1,
                                                 routers[ri], gen)} :
                        Raised(data)
                ELSE Merged(process_dhcp_leases(routers[ri], existing_data, network_config,
                                fetched, gen),
                            RouterPc(routers, ri + 1), ri + 1)
    /\ UNCHANGED <<files, cycle, routers, history, call>>

\* main, lines 639-652: the static devices and the "Static" node; an
\* exception of process_static_devices reaches the except of line 676
ProcessStatic ==
    /\ pc = "static"
    /\ \E file \in StaticFiles :
         IF StaticRaises(file)
         THEN /\ pc' = "sleep_error"
              /\ UNCHANGED <<existing_data, network_config, all_current_users, any_updates>>
         ELSE \E gen \in GenSeqs(Len(StaticDevicesOf(file))) :
                LET r == process_static_devices(existing_data, network_config, file, gen)
                IN  /\ existing_data' = r.data
                    /\ network_config' = AddStaticNode(r.net, r.users)
                    /\ all_current_users' = all_current_users \cup r.users
                    /\ any_updates' = (any_updates \/ r.updated)
                    /\ pc' = "prune"
    /\ UNCHANGED <<files, cycle, routers, ri, history, call>>

\* main, lines 654-659
Prune ==
    /\ pc = "prune"
    /\ existing_data' = Pruned(existing_data, all_current_users)
    /\ any_updates' = (any_updates \/ (DOMAIN existing_data) \ all_current_users # {})
    /\ pc' = "commit"
    /\ UNCHANGED <<files, cycle, network_config, routers, ri, all_current_users, history, call>>

\* main, lines 661-664: write_shaped_devices_csv raises when it fails,
\* write_network_json logs and returns.  csv_written: the CSV file can be
\* opened for writing; when a row cannot be written the file is left with
\* the rows before it.
Commit ==
    /\ pc = "commit"
    /\ IF any_updates
       THEN \E csv_written \in BOOLEAN, net_written \in BOOLEAN :
              IF csv_written /\ ~WriteRaises(existing_data)
              THEN /\ csvFile' = CsvRows(existing_data)
                   /\ netFile' = IF net_written THEN network_config ELSE netFile
                   /\ wrote' = {"csv"} \cup (IF net_written THEN {"net"} ELSE {})
                   /\ pc' = "reload"
              ELSE IF csv_written
              THEN /\ csvFile' \in PartialWrites(existing_data)
                   /\ pc' = "sleep_error"
                   /\ UNCHANGED <<netFile, wrote>>
              ELSE /\ pc' = "sleep_error"
                   /\ UNCHANGED <<files, wrote>>
       ELSE /\ pc' = "reload"
            /\ UNCHANGED <<files, wrote>>
    /\ UNCHANGED <<cycle, locals, ri, reload, config_read, call>>

\* a main that sends every failure of the command to the outer handler
ReloadPcUncaught(outcome) == IF outcome = "ok" THEN "sleep_scan" ELSE "sleep_error"

\* a main whose loop ends when the command cannot be started
ReloadPcStops(outcome) == IF outcome = "oserror" THEN "stopped" ELSE "sleep_scan"

\* where main goes after the LibreQoS command: "failed" is the
\* CalledProcessError of a non-zero exit status, which line 669 catches;
\* "oserror" is any other exception of subprocess.run (the command cannot
\* be started), which reaches the except of line 676
ReloadPc(outcome) == IF outcome = "oserror" THEN "sleep_error" ELSE "sleep_scan"

\* main, lines 665-675
Reload ==
    /\ pc = "reload"
    /\ \E outcome \in {"ok", "failed", "oserror"} :
         /\ reload' = outcome
         /\ pc' = ReloadPc(outcome)
    /\ UNCHANGED <<files, cycle, locals, ri, wrote, config_read, call>>

Next ==
    \/ StartCycle
    \/ ConnectRouter
    \/ ProcessPPP
    \/ ProcessHotspot
    \/ ProcessDhcp
    \/ ProcessStatic
    \/ Prune
    \/ Commit
    \/ Reload

Spec == Init /\ [][Next]_vars

\* ------------------------------------------------------------------------
\* Hierarchy scenario: main on a network.json that may hold tuned nodes and
\* whose read may fail
\* ------------------------------------------------------------------------
NetInit ==
    /\ csvFile = {}
    /\ netFile \in {EmptyDict, TunedNet}
    /\ pc = "start"
    /\ cycle = 0
    /\ existing_data = EmptyDict
    /\ network_config = EmptyDict
    /\ routers = <<>>
    /\ ri = 1
    /\ all_current_users = {}
    /\ any_updates = FALSE
    /\ wrote = {}
    /\ reload = "none"
    /\ config_read = TRUE
    /\ fn = "main"
    /\ arg = "hierarchy"
    /\ ret = <<>>

NetSpec == NetInit /\ [][Next]_vars

\* ------------------------------------------------------------------------
\* Function scenarios: one call of a function on arguments drawn from a
\* bounded set, while main does not run
\* ------------------------------------------------------------------------
\* longest text given to calculate_max_rates and calculate_min_rates
MaxTextLen == 2

\* the characters of those texts: digits, the dot, a character that is
\* no digit, and a digit that float() rejects
RateChars == {"0", "7", ".", "x", "sup2"}

Texts(chars, n) == UNION {[1..k -> chars] : k \in 0..n}

RateArgs ==
    {[op |-> "rates", rx |-> a, tx |-> b] :
        a \in Texts(RateChars, MaxTextLen), b \in Texts(RateChars, MaxTextLen)}

\* the entries and the new values given to update_entry_values
UpdateEntries ==
    {create_new_entry("u1", "r1", "PPP", mac, ipv4, ids) :
        mac \in {"AA:01", ""}, ipv4 \in {"a1", "a2"}, ids \in GenIdPairs}

\* a value for each key that may be given; "Note" is no key of an entry
UpdateValues ==
    [MAC: {"AA:01", "AA:02"}, IPv4: {"a1", "a2"}, Circuit: {"C1", "X1"},
     Max: {0, 20}, Note: {"n"}]

UpdateNewValues ==
    {[k \in keys |->
        CASE k = "MAC"               -> v.MAC
          [] k = "IPv4"              -> v.IPv4
          [] k = "Circuit ID"        -> v.Circuit
          [] k = "Download Max Mbps" -> v.Max
          [] OTHER                   -> v.Note] :
        keys \in SUBSET {"MAC", "IPv4", "Circuit ID", "Download Max Mbps", "Note"},
        v \in UpdateValues}

UpdateArgs ==
    {[op |-> "update", entry |-> e, new_values |-> nv] :
        e \in UpdateEntries, nv \in UpdateNewValues}

\* most PPP users that one call of process_pppoe_users is given
MaxCircuits == 3

\* the profile of the i-th PPP secret: gold, silver, none ('default'), ...
CircuitProfile(i) ==
    IF i % 3 = 1 THEN "gold" ELSE IF i % 3 = 2 THEN "silver" ELSE "default"

\* the i-th PPP secret and its active session, as the router reports them;
\* every third secret carries no profile
CircuitSecret(i) ==
    ("name" :> ("u" \o ToString(i)))
        @@ ("caller-id" :> "AA:01") @@ ("rate-limit" :> Text20M5)
        @@ (IF i % 3 = 0 THEN EmptyDict ELSE ("profile" :> CircuitProfile(i)))

CircuitActive(i) ==
    ("name" :> ("u" \o ToString(i))) @@ ("address" :> ("a" \o ToString(i)))

\* r1 with the manual-parent pool and without per-plan nodes
RouterPool ==
    [RouterR1a EXCEPT !.manual_parent = TRUE,
                      !.manual_parent_nodes = <<"PPPOE-A", "PPPOE-B">>]

\* a network.json in which the operator has tuned the plan node of gold
TunedPlanNet ==
    ("r1" :> TunedNode(("PPP-r1" :> TunedNode(EmptyDict))
                @@ ("PLAN-gold-r1" :> [TunedNode(EmptyDict) EXCEPT !.type = "plan"])))

\* the tables given to process_pppoe_users: empty, or holding u1 as an
\* earlier cycle wrote it without per-plan nodes
PppoeTables ==
    {EmptyDict,
     ("u1" :> create_new_entry("u1", "r1", "PPP", "AA:01", "a1", <<"C9", "D9">>))}

\* a router, the number of PPP users it reports, and the table and the
\* hierarchy that main hands over: network.json as update_network_json
\* returns it for a new file or for the tuned one
PppoeArgs ==
    {[op |-> "pppoe", router |-> r, count |-> n, data |-> d,
      net |-> update_network_json(<<r>>, file, TRUE).config] :
        r \in {RouterR1a, RouterR1b, RouterPool}, n \in 0..MaxCircuits,
        d \in PppoeTables, file \in {EmptyDict, TunedPlanNet}}

\* The rate limit texts given to parse_rate_limit.  A side is written as a
\* number, a unit and trailing characters; tenths is the number that the
\* digits write, in tenths, and ok is whether the side starts with a number.
SideNumbers ==
    { [text |-> <<"0">>, tenths |-> 0],
      [text |-> <<"2", "0">>, tenths |-> 200],
      [text |-> <<"5", "1", "2">>, tenths |-> 5120],
      [text |-> <<"1", ".", "5">>, tenths |-> 15] }

SideUnits == {<<>>, <<"k">>, <<"K">>, <<"m">>, <<"M">>, <<"g">>, <<"G">>}

Side(number, unit, junk) ==
    [text |-> number.text \o unit \o junk, ok |-> TRUE,
     tenths |-> number.tenths, unit |-> unit, junk |-> junk]

NoNumberSide(text) ==
    [text |-> text, ok |-> FALSE, tenths |-> 0, unit |-> <<>>, junk |-> <<>>]

Side5M == Side([text |-> <<"5">>, tenths |-> 50], <<"M">>, <<>>)

Sides ==
    {Side(n, u, j) : n \in SideNumbers, u \in SideUnits, j \in {<<>>, <<"x">>}}
      \cup {Side5M}
      \cup {NoNumberSide(t) : t \in {<<>>, <<"x">>, <<"-", "5">>, <<".", "5", "M">>, <<"M">>}}

\* '<rx>/<tx>' as the first token, alone or followed by further tokens
PairArgs ==
    {[op |-> "rate_limit", shape |-> "pair", rx |-> a, tx |-> b,
      text |-> lead \o a.text \o <<"/">> \o b.text \o rest] :
        a \in Sides, b \in Sides, lead \in {<<>>, <<" ">>},
        rest \in {<<>>, <<" ", "9", "M", "/", "9", "M">>}}

\* no text, and texts whose first token is no pair (or that hold no token)
OtherRateArgs ==
    {[op |-> "rate_limit", shape |-> "empty", rx |-> NoNumberSide(<<>>),
      tx |-> NoNumberSide(<<>>), text |-> <<>>]}
      \cup {[op |-> "rate_limit", shape |-> "nopair", rx |-> NoNumberSide(<<>>),
             tx |-> NoNumberSide(<<>>), text |-> t] :
               t \in {<<"2", "0", "M">>, <<"1", "/", "2", "/", "3">>, <<" ">>,
                      <<"2", "0", "M", " ", "5", "M", "/", "5", "M">>}}

RateLimitArgs == PairArgs \cup OtherRateArgs

\* What two consecutive cycles see: the routers of config.json, what each
\* router reports, and the static device file.
RouterR2a == [RouterR1a EXCEPT !.name = "r2"]

\* r1 with two DHCP servers configured, one of them every server
RouterTwoServers == [RouterR1b EXCEPT !.dhcp.dhcp_server = <<"dhcp1", "*">>]

\* a second lease with the host name of Lease1
Lease2 ==
    ("mac-address" :> "AA:02") @@ ("address" :> "a3") @@ ("host-name" :> "pc")
        @@ ("server" :> "dhcp1")

\* a static device that declares no identifiers
StaticDevice2 ==
    ("Circuit Name" :> "s2") @@ ("Parent Node" :> "P1") @@ ("IPv4" :> "a4")
        @@ ("Comment" :> "Static")

NoRecords == [secrets |-> <<>>, active |-> <<>>, hotspot |-> <<>>, leases |-> <<>>]

OneOfEach ==
    [secrets |-> <<Secret1>>, active |-> <<("name" :> "u1") @@ ("address" :> "a1")>>,
     hotspot |-> <<HotspotUser1>>, leases |-> <<Lease1>>]

NoStaticFile == [kind |-> "missing", devices |-> <<>>]

CycleArgs ==
    { \* every name reported once
      [op |-> "cycles", distinct |-> TRUE, routers |-> <<RouterR1b>>,
       sources |-> ("r1" :> OneOfEach), static |-> NoStaticFile],
      \* a static device without identifiers
      [op |-> "cycles", distinct |-> TRUE, routers |-> <<RouterR1a>>,
       sources |-> ("r1" :> OneOfEach),
       static |-> [kind |-> "list", devices |-> <<StaticDevice2>>]],
      \* the same lease list fetched once per configured server
      [op |-> "cycles", distinct |-> TRUE, routers |-> <<RouterTwoServers>>,
       sources |-> ("r1" :> OneOfEach), static |-> NoStaticFile],
      \* two leases with the same host name
      [op |-> "cycles", distinct |-> FALSE, routers |-> <<RouterR1b>>,
       sources |-> ("r1" :> [NoRecords EXCEPT !.leases = <<Lease1, Lease2>>]),
       static |-> NoStaticFile],
      \* the same PPP user name on two routers
      [op |-> "cycles", distinct |-> FALSE, routers |-> <<RouterR1a, RouterR2a>>,
       sources |-> ("r1" :> OneOfEach) @@ ("r2" :> OneOfEach),
       static |-> NoStaticFile],
      \* a static device that declares its identifiers
      [op |-> "cycles", distinct |-> TRUE, routers |-> <<>>,
       sources |-> EmptyDict,
       static |-> [kind |-> "list", devices |-> <<StaticDevice1>>]] }

FnArgs == RateArgs \cup UpdateArgs \cup PppoeArgs \cup RateLimitArgs \cup CycleArgs

mainVars == <<files, pc, cycle, locals, ri, history>>

FnInit ==
    /\ csvFile = {}
    /\ netFile = EmptyDict
    /\ pc = "start"
    /\ cycle = 0
    /\ existing_data = EmptyDict
    /\ network_config = EmptyDict
    /\ routers = <<>>
    /\ ri = 1
    /\ all_current_users = {}
    /\ any_updates = FALSE
    /\ wrote = {}
    /\ reload = "none"
    /\ config_read = TRUE
    /\ fn = "input"
    /\ arg \in FnArgs
    /\ ret = <<>>

\* calculate_max_rates(rx, tx)
CallMaxRates ==
    /\ fn = "input"
    /\ arg.op = "rates"
    /\ fn' = "calculate_max_rates"
    /\ ret' = calculate_max_rates_str(arg.rx, arg.tx)
    /\ UNCHANGED <<arg, mainVars>>

\* calculate_min_rates(max_rx, max_tx)
CallMinRates ==
    /\ fn = "input"
    /\ arg.op = "rates"
    /\ fn' = "calculate_min_rates"
    /\ ret' = calculate_min_rates_str(arg.rx, arg.tx)
    /\ UNCHANGED <<arg, mainVars>>

\* update_entry_values(entry, new_values): the entry after the call and
\* the returned flag
CallUpdateEntry ==
    /\ fn = "input"
    /\ arg.op = "update"
    /\ fn' = "update_entry_values"
    /\ ret' = [entry   |-> UpdatedEntry(arg.entry, arg.new_values),
               changed |-> EntryChanged(arg.entry, arg.new_values)]
    /\ UNCHANGED <<arg, mainVars>>

\* process_pppoe_users(api, router, existing_data, network_config): the
\* table and the hierarchy after the call, and the parent nodes of the
\* entries in the order in which the users were observed
CallProcessPppoe ==
    /\ fn = "input"
    /\ arg.op = "pppoe"
    /\ fn' = "process_pppoe_users"
    /\ LET secrets == [i \in 1..arg.count |-> CircuitSecret(i)]
           active  == [i \in 1..arg.count |-> CircuitActive(i)]
           gen     == [i \in 1..arg.count |-> <<"C" \o ToString(i), "D" \o ToString(i)>>]
           r       == process_pppoe_users(arg.router, arg.data, arg.net, secrets, active,
                                          FALSE, EmptyDict, gen)
       IN  ret' = [parents |-> [i \in 1..arg.count |->
                                   r.data[secrets[i]["name"]]["Parent Node"]],
                   data    |-> r.data,
                   net     |-> r.net,
                   users   |-> r.users]
    /\ UNCHANGED <<arg, mainVars>>

\* parse_rate_limit(rate_limit)
CallParseRateLimit ==
    /\ fn = "input"
    /\ arg.op = "rate_limit"
    /\ fn' = "parse_rate_limit"
    /\ ret' = parse_rate_limit(arg.text)
    /\ UNCHANGED <<arg, mainVars>>

\* lines 390-392 of process_pppoe_users: the rates derived from a rate limit
CallDeriveRates ==
    /\ fn = "input"
    /\ arg.op = "rate_limit"
    /\ fn' = "derive_rates"
    /\ LET parsed == parse_rate_limit(arg.text)
           max    == calculate_max_rates(parsed.rx, parsed.tx)
       IN  ret' = [parsed |-> parsed, max |-> max,
                   min |-> calculate_min_rates(max.rx, max.tx)]
    /\ UNCHANGED <<arg, mainVars>>

\* Two iterations of main's loop that see the same configuration, source
\* records and static declarations, the first on an empty table and a new
\* network.json, the second on the files that the first wrote.  The
\* identifiers generated in the two cycles differ.
CallTwoCycles ==
    /\ fn = "input"
    /\ arg.op = "cycles"
    /\ fn' = "main"
    /\ LET gen1  == [i \in 1..2 |-> <<"C" \o ToString(i), "D" \o ToString(i)>>]
           gen2  == [i \in 1..2 |-> <<"E" \o ToString(i), "F" \o ToString(i)>>]
           first == main_cycle({}, EmptyDict, arg.routers, arg.sources, arg.static, gen1)
       IN  ret' = [first  |-> first,
                   second |-> main_cycle(first.rows, first.net, arg.routers,
                                         arg.sources, arg.static, gen2)]
    /\ UNCHANGED <<arg, mainVars>>

FnNext ==
    \/ CallTwoCycles
    \/ CallMaxRates
    \/ CallMinRates
    \/ CallUpdateEntry
    \/ CallProcessPppoe
    \/ CallParseRateLimit
    \/ CallDeriveRates

FnSpec == FnInit /\ [][FnNext]_vars

\* ------------------------------------------------------------------------
\* Properties
\* ------------------------------------------------------------------------
\* an entry or row tagged as coming from a dynamic source
IsDynamicKind(e) == e["Comment"] \in {"PPP", "HS", "DHCP"}

\* an entry or row tagged as a static device
IsStaticKind(e) == e["Comment"] = "Static"

RateColumns ==
    {"Download Min Mbps", "Upload Min Mbps", "Download Max Mbps", "Upload Max Mbps"}

\* C1: a dynamic entry that is absent from the snapshots of a cycle is kept
\* by the pruning step of that cycle.  The grace window (1200 s) spans ten
\* scan intervals, so within the cycles explored here no dynamic entry may
\* be removed by pruning at all.  Stated for the cycles in which a router is
\* configured: the entry is absent because the router could not be reached
\* or did not report it.
C1_DynamicKeptWithinGrace ==
    [][(pc = "prune" /\ routers # <<>>) =>
          \A code \in DOMAIN existing_data :
             IsDynamicKind(existing_data[code]) => code \in DOMAIN existing_data']_vars

\* C2: the pruning step of a cycle never deletes a Static entry, whatever
\* the snapshots and the static declaration list of the cycle are.
C2_StaticNeverPruned ==
    [][pc = "prune" =>
          \A code \in DOMAIN existing_data :
             IsStaticKind(existing_data[code]) => code \in DOMAIN existing_data']_vars

\* a step of the merge leaves the identifiers of the records it keeps
IdsKept ==
    pc \in {"ppp", "hotspot", "dhcp", "static"} =>
       \A code \in (DOMAIN existing_data) \cap (DOMAIN existing_data') :
          /\ existing_data'[code]["Circuit ID"] = existing_data[code]["Circuit ID"]
          /\ existing_data'[code]["Device ID"] = existing_data[code]["Device ID"]

\* C3: while a record stays in the table during a cycle, no upsert changes
\* its Circuit ID or its Device ID.
C3_IdsImmutable == [][IdsKept]_vars

\* C4: no committed table holds a dynamic record whose address is the
\* address of a static record.
C4_StaticAddressReserved ==
    \A s \in csvFile, d \in csvFile :
       (IsStaticKind(s) /\ IsDynamicKind(d) /\ s["IPv4"] # "") => d["IPv4"] # s["IPv4"]

\* C5: whatever happens while one access kind of a router is processed, the
\* next access kind of the same router is processed after it.
C5_OtherKindsStillMerged ==
    [][(pc = "ppp" => pc' = "hotspot") /\ (pc = "hotspot" => pc' = "dhcp")]_vars

\* C6: in a cycle with a change, the reload is invoked only after both the
\* table and the hierarchy have been written successfully.
C6_ReloadAfterBothWrites ==
    (reload # "none" /\ any_updates) => wrote = {"csv", "net"}

\* C7: the reload is invoked only in a cycle in which something changed.
C7_ReloadOnlyIfChanged ==
    reload # "none" => any_updates

\* what main wrote in this cycle is what the files hold
FilesKept ==
    /\ "csv" \in wrote => csvFile = CsvRows(existing_data)
    /\ "net" \in wrote => netFile = network_config

C9_ParentNodesExist ==
    \A row \in csvFile : row["Parent Node"] \in NodeNames(netFile)

\* C10: every row of the persisted table has its four rates at least 2, and
\* each minimum at most the maximum.
C10_RateFloor ==
    \A row \in csvFile :
       /\ \A k \in RateColumns : row[k] >= RATE_FLOOR
       /\ row["Download Min Mbps"] <= row["Download Max Mbps"]
       /\ row["Upload Min Mbps"] <= row["Upload Max Mbps"]

\* the factor, in tenths, of the function that was called
CalledTenths ==
    IF fn = "calculate_max_rates" THEN MAX_RATE_TENTHS ELSE MIN_RATE_TENTHS

\* v is max(floor(x * factor), 2) for the number x that the text s writes,
\* and 2 for a text that writes no number
IsFlooredRate(v, s, tenths) ==
    /\ v >= RATE_FLOOR
    /\ IF IsNumericText(s)
       THEN LET x == TextFloat(s)
            IN  \E f \in 0..(x.num * tenths) :
                   /\ f * x.den * 10 <= x.num * tenths
                   /\ x.num * tenths < (f + 1) * x.den * 10
                   /\ v = Max2(f, RATE_FLOOR)
       ELSE v = RATE_FLOOR

\* a text that str.isdigit() accepts and float() rejects
FloatRejects(s) == IsNumericText(s) /\ FloatRaises(s)

\* C11: for every pair of input texts, numeric or not, each of
\* the two functions returns two values of at least 2, max(floor(x * factor), 2)
\* for a numeric x.
C11_RatesFlooredForEveryInput ==
    fn \in {"calculate_max_rates", "calculate_min_rates"} =>
       /\ ~ret.raised
       /\ IsFlooredRate(ret.rx, arg.rx, CalledTenths)
       /\ IsFlooredRate(ret.tx, arg.tx, CalledTenths)

\* the same for the pairs of input texts that float() does not reject,
\* which is what the two functions do achieve
RatesFlooredUnlessRejected ==
    (/\ fn \in {"calculate_max_rates", "calculate_min_rates"}
     /\ ~FloatRejects(arg.rx)
     /\ ~FloatRejects(arg.tx)) =>
       /\ ~ret.raised
       /\ IsFlooredRate(ret.rx, arg.rx, CalledTenths)
       /\ IsFlooredRate(ret.tx, arg.tx, CalledTenths)

\* the keys of new_values whose value differs from the stored one
Differing(entry, new_values) ==
    {k \in DOMAIN new_values : k \notin DOMAIN entry \/ entry[k] # new_values[k]}

\* C12: an upsert whose attributes equal the stored ones reports no change
\* and leaves the record as it is, identifiers included; an upsert with a
\* differing attribute reports a change, overwrites exactly the differing
\* fields and leaves every other field untouched.
C12_UpsertChangesExactlyDiffering ==
    fn = "update_entry_values" =>
       LET differing == Differing(arg.entry, arg.new_values)
       IN  /\ ret.changed = (differing # {})
           /\ differing = {} => ret.entry = arg.entry
           /\ DOMAIN ret.entry = (DOMAIN arg.entry) \cup differing
           /\ \A k \in differing : ret.entry[k] = arg.new_values[k]
           /\ \A k \in (DOMAIN arg.entry) \ differing : ret.entry[k] = arg.entry[k]

\* C12 witness: an upsert of the stored address and MAC, which reports no
\* change
C12_Witness ==
    /\ fn = "update_entry_values"
    /\ DOMAIN arg.new_values = {"MAC", "IPv4"}
    /\ ~ret.changed
    /\ ret.entry["Circuit ID"] = arg.entry["Circuit ID"]

\* the caps of a node
Caps(node) == <<node.downloadBandwidthMbps, node.uploadBandwidthMbps>>

\* every node of hierarchy a is a node of hierarchy b, with the same caps
NodesKept(a, b) ==
    \A n \in DOMAIN a :
       /\ n \in DOMAIN b
       /\ Caps(b[n]) = Caps(a[n])
       /\ \A c \in DOMAIN a[n].children :
             /\ c \in DOMAIN b[n].children
             /\ Caps(b[n].children[c]) = Caps(a[n].children[c])

\* C13: no step of any cycle deletes a node of the persisted hierarchy or
\* changes its caps; in particular update_network_json adds a router and
\* its children only when the router is absent.
C13_NodesNeverDeletedOrRetuned == [][NodesKept(netFile, netFile')]_vars

\* C14: in a cycle whose config.json is missing or unreadable nothing is
\* inserted, updated or deleted and no file is written: the cycle goes to
\* the error backoff with the table as it was read.
C14_MissingConfigAbortsCycle ==
    (cycle > 0 /\ ~config_read) =>
       /\ pc = "sleep_error"
       /\ wrote = {}
       /\ existing_data = read_shaped_devices_csv(csvFile)

\* a commit step in which the write of the table or of the hierarchy fails
\* ends the cycle at the error wait, and the cycle after an error wait
\* starts from the table as persisted
WriteFailureAborts ==
    /\ (pc = "commit" /\ any_updates /\ wrote' # {"csv", "net"}) => pc' = "sleep_error"
    /\ (pc = "sleep_error" /\ pc' # pc) => existing_data' = read_shaped_devices_csv(csvFile')

\* C15: when the write of the table or of the hierarchy fails, the cycle is
\* aborted without the reload and retried after the error backoff, and the
\* next cycle starts from the persisted state.
C15_WriteFailureAbortsCycle == [][WriteFailureAborts]_vars

\* C16: once the merging of a cycle is done, no two records of the table
\* have the same non-empty IPv4 address.
C16_AddressesUnique ==
    pc \in {"prune", "commit", "reload", "sleep_scan"} =>
       \A c \in DOMAIN existing_data, d \in DOMAIN existing_data :
          (c # d /\ existing_data[c]["IPv4"] # "") =>
             existing_data[c]["IPv4"] # existing_data[d]["IPv4"]

\* the manual-parent mode that a router list asks for
ManualMode(router_list) ==
    \E i \in 1..Len(router_list) : router_list[i].manual_parent

\* the start of a cycle whose manual-parent mode differs from the mode of
\* the cycle before clears the table before the merge
ModeChangeResets ==
    (/\ pc \in {"sleep_scan", "sleep_error"}
     /\ pc' # pc
     /\ routers # <<>> /\ routers' # <<>>
     /\ ManualMode(routers') # ManualMode(routers)) =>
       existing_data' = EmptyDict

\* C17: when the manual-parent mode of a cycle differs from the mode of the
\* cycle before, every entry is cleared from the table before the merge of
\* this cycle.
C17_ModeChangeClearsTable == [][ModeChangeResets]_vars

\* C18: with a non-empty manual parent pool, the i-th PPP circuit processed
\* in a cycle, counting from 0, gets the parent pool[i mod len(pool)]; three
\* new circuits and the pool [PPPOE-A, PPPOE-B] get PPPOE-A, PPPOE-B, PPPOE-A.
C18_PoolRoundRobin ==
    (fn = "process_pppoe_users" /\ arg.router.manual_parent_nodes # <<>>) =>
       LET pool == arg.router.manual_parent_nodes
       IN  \A i \in 1..arg.count :
              ret.parents[i] = pool[((i - 1) % Len(pool)) + 1]

\* C19: the rate limit "20M/5M" yields the maxima (23, 5) and the minima
\* (11, 2), the maximum being 115% of the parsed rate and the minimum 50% of
\* the maximum, each floored and at least 2.
C19_Example20M5M ==
    (fn = "derive_rates" /\ arg.shape = "pair"
       /\ arg.rx.text = <<"2", "0", "M">> /\ arg.tx.text = <<"5", "M">>) =>
       /\ ret.max = [rx |-> 23, tx |-> 5]
       /\ ret.min = [rx |-> 11, tx |-> 2]

\* the value of a well-formed side, converted by its unit and rounded to
\* two decimal places, in hundredths of a Mbps
SideHundredths(side) ==
    IF side.unit \in {<<"k">>, <<"K">>} THEN RoundDiv(side.tenths, 100)
    ELSE IF side.unit \in {<<"g">>, <<"G">>} THEN side.tenths * 10000
    ELSE side.tenths * 10

\* a side in the claimed format: an unsigned number and an optional unit
WellFormed(side) == side.ok /\ side.junk = <<>>

\* what is common to the claim and its amendment: no text and "0/0" yield
\* (0, 0), a text whose first token is no pair yields (3, 3), and the entry
\* gets rates derived from what was parsed
ParseOutcomes ==
    /\ (fn = "parse_rate_limit" /\ arg.shape = "empty") => ret = [rx |-> 0, tx |-> 0]
    /\ (fn = "parse_rate_limit" /\ arg.shape = "nopair") =>
          ret = [rx |-> PARSE_DEFAULT_HUNDREDTHS, tx |-> PARSE_DEFAULT_HUNDREDTHS]
    /\ (fn = "parse_rate_limit" /\ arg.shape = "pair"
          /\ arg.rx.text = <<"0">> /\ arg.tx.text = <<"0">>) => ret = [rx |-> 0, tx |-> 0]
    /\ fn = "derive_rates" =>
          \A v \in {ret.max.rx, ret.max.tx, ret.min.rx, ret.min.tx} : v >= RATE_FLOOR

\* C20, as claimed: in a pair, a side that is not an unsigned number with
\* an optional unit k, m or g yields 0 and the other side is converted by
\* its unit; no text and "0/0" yield (0, 0); a text without a pair yields
\* the default (3, 3); the record is processed in every case.
C20_MalformedSideYieldsZero ==
    /\ ParseOutcomes
    /\ (fn = "parse_rate_limit" /\ arg.shape = "pair") =>
          /\ ret.rx = IF WellFormed(arg.rx) THEN SideHundredths(arg.rx) ELSE 0
          /\ ret.tx = IF WellFormed(arg.tx) THEN SideHundredths(arg.tx) ELSE 0

\* C20, amended: a side that does not start with an unsigned number yields
\* 0; a side that starts with one is converted by the unit that follows the
\* number, whatever characters come after; the rest as claimed.
C20_SideWithoutNumberYieldsZero ==
    /\ ParseOutcomes
    /\ (fn = "parse_rate_limit" /\ arg.shape = "pair") =>
          /\ ret.rx = IF arg.rx.ok THEN SideHundredths(arg.rx) ELSE 0
          /\ ret.tx = IF arg.tx.ok THEN SideHundredths(arg.tx) ELSE 0

\* C20 witness: a pair whose first side holds no number and whose second
\* side is 512k
C20_Witness ==
    /\ fn = "parse_rate_limit"
    /\ arg.shape = "pair"
    /\ arg.rx.text = <<"x">> /\ arg.tx.text = <<"5", "1", "2", "k">>
    /\ ret = [rx |-> 0, tx |-> 51]

\* C21: within a cycle the static declarations are merged before any
\* dynamic record is evaluated: when main reaches the static merge
\* (line 640), no PPP, hotspot or DHCP record of this cycle has been
\* evaluated yet, so all_current_users, which receives the name of every
\* dynamic record evaluated, is still empty.
C21_StaticMergedBeforeDynamic ==
    pc = "static" => all_current_users = {}

\* a plan node as the claim has it created: default bandwidth, type "plan"
DefaultPlanNode ==
    [downloadBandwidthMbps |-> DEFAULT_BANDWIDTH,
     uploadBandwidthMbps   |-> DEFAULT_BANDWIDTH,
     type                  |-> "plan",
     children              |-> EmptyDict]

\* C22: after process_pppoe_users, for a router with per-plan nodes every
\* active PPP circuit with profile P has the parent "PLAN-P-<router>", a
\* node of that name is among the children of the router's node, as it was
\* before the call when it was present and with the default bandwidth and
\* type "plan" when it was absent; without per-plan nodes the parent is
\* "PPP-<router>".
C22_PerPlanParents ==
    fn = "process_pppoe_users" =>
       LET name == arg.router.name
           kids_before == arg.net[name].children
           kids_after  == ret.net[name].children
       IN  \A i \in 1..arg.count :
              LET parent == ret.data["u" \o ToString(i)]["Parent Node"]
                  node   == "PLAN-" \o CircuitProfile(i) \o "-" \o name
              IN  IF arg.router.pppoe.per_plan_node
                  THEN /\ parent = node
                       /\ node \in DOMAIN kids_after
                       /\ kids_after[node] =
                             IF node \in DOMAIN kids_before
                             THEN kids_before[node] ELSE DefaultPlanNode
                  ELSE parent = "PPP-" \o name

\* C22 witness: three circuits on a router with per-plan nodes, u1 known to
\* the table with another parent and the gold node tuned by the operator:
\* the gold node keeps its caps, the silver node is created
C22_Witness ==
    /\ fn = "process_pppoe_users"
    /\ arg.router.pppoe.per_plan_node
    /\ arg.count = 3
    /\ arg.net = TunedPlanNet
    /\ "u1" \in DOMAIN arg.data
    /\ arg.data["u1"]["Parent Node"] = "PPP-r1"
    /\ ret.data["u1"]["Parent Node"] = "PLAN-gold-r1"
    /\ ret.net["r1"].children["PLAN-gold-r1"].downloadBandwidthMbps = TUNED_BANDWIDTH
    /\ "PLAN-silver-r1" \notin DOMAIN arg.net["r1"].children
    /\ ret.net["r1"].children["PLAN-silver-r1"] = DefaultPlanNode
    /\ ret.net["r1"].children["PLAN-default-r1"] = DefaultPlanNode

\* ------------------------------------------------------------------------
\* Progress of the loop: main is one thread, and every call it makes
\* returns or raises, so a step of main that is possible is eventually taken
\* ------------------------------------------------------------------------
LiveSpec == Init /\ [][Next]_vars /\ WF_vars(Next)

\* main is inside an iteration of its loop, between the read of line 612
\* and one of the two sleeps
InCycle == pc \notin {"start", "sleep_scan", "sleep_error"}

\* the steps that start and end a cycle: a cycle starts only while no cycle
\* is in progress, and the sleep of the scan interval is reached only from
\* the LibreQoS command, which follows pruning and committing
OneCycleAtATime ==
    /\ cycle' # cycle => (~InCycle /\ cycle' = cycle + 1)
    /\ (InCycle /\ pc' = "sleep_scan") => pc = "reload"
    /\ (~InCycle /\ pc' # pc) => cycle' = cycle + 1

\* C23: every started cycle ends, in the sleep of the scan interval after
\* the commit and the command or in the sleep of the error-retry interval
\* after a failure, and a new cycle starts afterwards (while the number of
\* cycles explored allows one); no cycle starts while one is in progress.
C23_CyclesEndAndRestart ==
    /\ [][OneCycleAtATime]_vars
    /\ \A n \in 1..MaxCycles :
          (cycle = n /\ InCycle) ~> (cycle = n /\ pc \in {"sleep_scan", "sleep_error"})
    /\ \A n \in 1..(MaxCycles - 1) :
          (cycle = n /\ pc \in {"sleep_scan", "sleep_error"}) ~> (cycle = n + 1 /\ InCycle)

\* C23 witness: a cycle failed after another one, and will be retried
C23_Witness ==
    /\ cycle = 2
    /\ pc = "sleep_error"
    /\ csvFile # {}

\* what the pruning step and the commit after it do with the names
\* collected in all_current_users, the union of the names that the
\* processing functions returned for the routers reached in this cycle and
\* of the names of the static declarations
PruneKeepsCollected ==
    /\ pc = "prune" =>
          /\ DOMAIN existing_data' = all_current_users
          /\ \A code \in all_current_users : existing_data'[code] = existing_data[code]
          /\ (DOMAIN existing_data) \ all_current_users # {} => any_updates'
    /\ (pc = "commit" /\ any_updates) =>
          (csvFile' = CsvRows(existing_data) \/ pc' = "sleep_error")

\* C24: after the pruning step of a cycle that reaches it, the names of the
\* table are exactly the names collected in this cycle from the routers
\* that were reached and processed and from the static declarations; a name
\* outside them is deleted by that step, which sets any_updates, so that the
\* commit writes the table (or fails in writing it).
C24_TableEqualsCollected == [][PruneKeepsCollected]_vars

\* C24 witness: the table read from the file held entries, nothing was
\* collected in this cycle, and pruning has emptied the table and set
\* any_updates
C24_Witness ==
    /\ pc = "commit"
    /\ csvFile # {}
    /\ all_current_users = {}
    /\ existing_data = EmptyDict
    /\ any_updates

\* the second of two cycles on the same inputs changes nothing
SecondCycleIdle ==
    /\ ~ret.second.any_updates
    /\ ret.second.rows = ret.first.rows
    /\ ret.second.data = ret.first.data

\* C25: reconciliation reaches a fixed point: when a cycle has completed
\* and persisted and the next cycle sees the same configuration, source
\* records and static declarations, the next cycle inserts, updates and
\* deletes nothing (any_updates stays false) and the persisted table is the
\* same, also when several records of the cycle map to one circuit name.
C25_FixedPoint ==
    (fn = "main" /\ ret.first.any_updates) => SecondCycleIdle

\* what holds of the fixed point: it is reached by the second cycle when every
\* circuit name is reported by one record (or by the same record again) and
\* no static device declares its own identifiers
FixedPointForDistinctNames ==
    (fn = "main" /\ ret.first.any_updates /\ arg.distinct
        /\ \A i \in 1..Len(arg.static.devices) :
              "Circuit ID" \notin DOMAIN arg.static.devices[i])
       => SecondCycleIdle

\* C26: after any merge every record of the table has exactly the 13
\* columns of FIELDNAMES as its keys and holds as Circuit Name the key it is
\* stored under, also after a static declaration with a field outside the
\* columns was merged into an existing record; so the write of the table
\* never fails for an unknown column.
C26_RecordsHaveFixedColumns ==
    /\ \A code \in DOMAIN existing_data :
          /\ DOMAIN existing_data[code] = FIELDNAMES
          /\ existing_data[code]["Circuit Name"] = code
    /\ ~WriteRaises(existing_data)

====
